---- MODULE Spec2Model ----
(***************************************************************************)
(* Model of the reactive property core of muze:                            *)
(*   - transactor (packages/muze-utils/src/common-utils.js), the factory   *)
(*     of getter/setter accessors over a hyperdis store;                   *)
(*   - the canvas change listener (setupChangeListener and its two         *)
(*     checkers).                                                          *)
(*                                                                         *)
(* JavaScript values are tokens: "undefined", "null", "true", "false",     *)
(* numbers "n:<digits>" and strings "s:<text>".  A stored value is either  *)
(* a scalar token or an array of scalar tokens.  JavaScript positions are  *)
(* 0-based, sequences here are 1-based: position i of the code is i+1.     *)
(***************************************************************************)
EXTENDS Integers, Sequences, FiniteSets, TLC

VARIABLES
    meta,       \* conf.meta of the property under test (the descriptor)
    store,      \* the backing store: property name -> stored value
    call,       \* the last accessor call: arguments, effects, outcome
    nsets,      \* the number of setter calls made so far
    cprops,     \* canvas store: watched property -> current value
    flushed,    \* the values the change listener was last notified of
    ncommits,   \* commits to the canvas store since that notification
    mount,      \* context.mount() is truthy
    inv,        \* the last run of the canvas change listener
    model,      \* Store.model: property path -> value
    nodes,      \* the listeners registered on Store.model, oldest first
    listeners,  \* Store._listeners: the handles registration returned
    detachedUpTo, \* how many listeners existed at the last unsubscribeAll
    last,       \* the last operation on the store and whom it called
    args,       \* the arguments of the utility function under test
    ret,        \* what the call of that function gave
    ctx,        \* the layer: its derived fields and its committed domain
    fired,      \* the last run of a layer or canvas handler
    subject,    \* the object under test: a curried function, a context
                \* with generated accessors, a model chained to an endpoint
    op          \* the last call made on that object

transactorVars == <<meta, store, call, nsets>>
canvasVars == <<cprops, flushed, ncommits, mount, inv>>
storeVars == <<model, nodes, listeners, detachedUpTo, last>>
utilVars == <<args, ret>>
layerVars == <<ctx, fired>>
objVars == <<subject, op>>
vars == <<meta, store, call, nsets, cprops, flushed, ncommits, mount, inv,
          model, nodes, listeners, detachedUpTo, last, args, ret, ctx, fired,
          subject, op>>

\* Longest argument list of a setter call.
MaxArgs == 2

\* Setter calls in one run.
MaxSets == 1

\* Listeners registered on one store.
MaxListeners == 2

\* Keys handed to one call of sanitizeIP.typeObj.
MaxKeys == 2

\* Domains handed to one call of unionDomain.
MaxDomains == 2

\* Commits to the canvas store between two notifications of its listener.
MaxCommits == 2

\* The most keys a dependency graph has.
MaxNodes == 3

\* The most rows a series given to getDomainFromData has.
MaxRows == 2

\* The longest array given to getClosestIndexOf.
MaxLength == 3

\* The most complete applications of a curried function.
MaxApplications == 2

---------------------------------------------------------------------------
(* JavaScript values *)

UNDEFINED == "undefined"
NULL == "null"
JSTRUE == "true"
JSFALSE == "false"

NumberVals == {"n:0", "n:1", "n:5"}
StringVals == {"s:", "s:5px"}
BooleanVals == {JSTRUE, JSFALSE}

\* The values a caller passes to a setter.
ArgVals == {UNDEFINED, "n:0", "n:5", "s:5px"}

\* A stored value: a scalar, or an array of scalars.
Scalar(v) == [arr |-> FALSE, v |-> v, a |-> <<>>]
Arr(s) == [arr |-> TRUE, v |-> UNDEFINED, a |-> s]

\* ToBoolean, as `if (x)`, `x && y` apply it.
Truthy(v) == v \notin {UNDEFINED, NULL, JSFALSE, "n:0", "s:"}

\* val.constructor.name of a value that has a constructor.
ConstructorName(v) ==
    IF v \in NumberVals THEN "s:Number"
    ELSE IF v \in StringVals THEN "s:String"
    ELSE IF v \in BooleanVals THEN "s:Boolean"
    ELSE UNDEFINED

\* The marker of a raised exception (no JavaScript value).
THROWN == "#thrown"

\* intSanitizer: the first run of digits of val.toString(), or null; it
\* raises a TypeError on undefined and null, which have no toString.
intSanitizer(val) ==
    IF val \in {UNDEFINED, NULL} THEN THROWN
    ELSE IF val \in NumberVals THEN val
    ELSE IF val = "s:5px" THEN "n:5"
    ELSE NULL

---------------------------------------------------------------------------
(* Descriptors: meta.typeCheck, meta.typeExpected, meta.sanitization are   *)
(* named by kind.  Under spreadParams each is an array of meta.arity equal *)
(* entries, one per position; a position past the array reads undefined.   *)

Key == "prop"
Sibling == "sibling"

NoMeta ==
    [present |-> FALSE, spreadParams |-> FALSE, arity |-> 0, typeCheck |-> "none",
     typeExpected |-> UNDEFINED, sanitization |-> "none", preset |-> FALSE,
     value |-> Scalar("n:1")]

\* typeCheck with the typeExpected declared beside it (UNDEFINED: none).
CheckPairs ==
    { <<"none", UNDEFINED>>,
      <<"isNumber", UNDEFINED>>, <<"isNumber", JSFALSE>>,
      <<"typeOf", "s:number">>,
      <<"constructor", "s:Number">>, <<"constructor", "s:String">>,
      <<"constructor", UNDEFINED>> }

Descriptors ==
    {NoMeta}
    \cup { [present |-> TRUE, spreadParams |-> FALSE, arity |-> 0,
            typeCheck |-> cp[1], typeExpected |-> cp[2],
            sanitization |-> s, preset |-> p, value |-> Scalar("n:1")] :
           cp \in CheckPairs, s \in {"none", "intSanitizer", "orPrev"}, p \in BOOLEAN }
    \cup { [present |-> TRUE, spreadParams |-> TRUE, arity |-> 2,
            typeCheck |-> cp[1], typeExpected |-> cp[2],
            sanitization |-> s, preset |-> p, value |-> v] :
           cp \in CheckPairs, s \in {"none", "intSanitizer"}, p \in BOOLEAN,
           v \in {Arr(<<"n:1", "n:5">>), Scalar(UNDEFINED)} }

\* The predicates a descriptor may give as typeCheck.
TypeCheckFn(kind, val) ==
    IF kind = "isNumber"
    THEN (IF val \in NumberVals THEN JSTRUE ELSE JSFALSE)
    ELSE \* typeOf
         IF val \in NumberVals THEN "s:number"
         ELSE IF val \in StringVals THEN "s:string"
         ELSE IF val \in BooleanVals THEN "s:boolean"
         ELSE IF val = UNDEFINED THEN "s:undefined"
         ELSE "s:object"

IsPredicate(kind) == kind \in {"isNumber", "typeOf"}

\* The sanitization functions a descriptor may give.
SanitizationFn(kind, val, prevVal) ==
    IF kind = "intSanitizer" THEN intSanitizer(val)
    ELSE \* orPrev: (val, prev) => val == null ? prev : val
         IF val \in {UNDEFINED, NULL} THEN prevVal.v ELSE val

---------------------------------------------------------------------------
(* transactor: the accessor holder[prop] *)

\* meta.sanitization && (spreadParams ? meta.sanitization[i] : meta.sanitization)
SanitizationAt(m, i) ==
    IF m.sanitization = "none" THEN "none"
    ELSE IF m.spreadParams THEN (IF i <= m.arity THEN m.sanitization ELSE "none")
    ELSE m.sanitization

\* meta.typeCheck && (spreadParams ? meta.typeCheck[i] : meta.typeCheck)
TypeCheckAt(m, i) ==
    IF m.typeCheck = "none" THEN "none"
    ELSE IF m.spreadParams THEN (IF i <= m.arity THEN m.typeCheck ELSE "none")
    ELSE m.typeCheck

\* Sanitized without the sanitization: the raw argument goes on.
SanitizedRaw(m, i, val, prevVal) == val

\* val after `if (sanitization && typeof sanitization === 'function')`.
Sanitized(m, i, val, prevVal) ==
    IF SanitizationAt(m, i) = "none" THEN val
    ELSE SanitizationFn(SanitizationAt(m, i), val, prevVal)

\* compareTo of the predicate branch: typeExpected (its i-th entry under
\* spreadParams) when that is truthy, true otherwise.
CompareTo(m, i) ==
    LET declared == m.typeExpected
        typeExpected ==
            IF declared # UNDEFINED /\ m.spreadParams
            THEN (IF i <= m.arity THEN declared ELSE UNDEFINED)
            ELSE declared
    IN IF Truthy(typeExpected) THEN typeExpected ELSE JSTRUE

\* typeCheck(val) === compareTo
PredicateAccepts(m, i, val) == TypeCheckFn(TypeCheckAt(m, i), val) = CompareTo(m, i)

\* The 'constructor' branch reads meta.typeExpected[i] under spreadParams,
\* a TypeError when meta.typeExpected is not declared.
ConstructorThrows(m, i) == m.spreadParams /\ m.typeExpected = UNDEFINED

\* val && (val.constructor.name === typeExpected)
ConstructorAccepts(m, i, val) ==
    Truthy(val) /\ ConstructorName(val) = m.typeExpected

\* Verdict without the type check: every sanitized value is pushed.
VerdictNoTypeCheck(m, i, val) == IF val = THROWN THEN "thrown" ELSE "push"

\* One turn of the loop over params: "thrown", "push" or "skip".
Verdict(m, i, val) ==
    LET typeCheck == TypeCheckAt(m, i) IN
    IF val = THROWN THEN "thrown"
    ELSE IF typeCheck = "none" THEN "push"
    ELSE IF IsPredicate(typeCheck)
    THEN (IF PredicateAccepts(m, i, val) THEN "push" ELSE "skip")
    ELSE IF ConstructorThrows(m, i) THEN "thrown"
    ELSE IF ConstructorAccepts(m, i, val) THEN "push" ELSE "skip"

\* for (let i = 0; i < paramsLen; i++) { ... values.push(val) ... }
RECURSIVE Loop(_, _, _, _, _)
Loop(m, params, prevVal, i, values) ==
    IF i > Len(params) THEN [values |-> values, threw |-> FALSE]
    ELSE LET val == Sanitized(m, i, params[i], prevVal)
             verdict == Verdict(m, i, val)
         IN IF verdict = "thrown" THEN [values |-> values, threw |-> TRUE]
            ELSE Loop(m, params, prevVal, i + 1,
                      IF verdict = "push" THEN Append(values, val) ELSE values)

\* values[0], undefined on an empty array
First(values) == IF Len(values) = 0 THEN UNDEFINED ELSE values[1]

\* oldValues.forEach((value, i) => { if (values[i] === undefined) values[i] = value; })
MergeOld(values, oldValues) ==
    LET n == IF Len(values) > Len(oldValues) THEN Len(values) ELSE Len(oldValues)
    IN [i \in 1..n |->
          IF i <= Len(values) /\ values[i] # UNDEFINED THEN values[i]
          ELSE IF i <= Len(oldValues) THEN oldValues[i]
          ELSE UNDEFINED]

\* values.length && context.prop(key, ...)
ShouldCommit(values) == Len(values) > 0

PresetEvent(v) == [e |-> "preset", arg |-> Scalar(v)]
WriteEvent(sv) == [e |-> "write", arg |-> sv]

\* The events of the part after the loop, in the order of the code: preset,
\* then (spreadParams) the merge, then the write.
AfterLoop(m, values, oldValues) ==
    LET presetEvents == IF m.preset THEN <<PresetEvent(First(values))>> ELSE <<>>
    IN IF m.spreadParams
       THEN IF ~oldValues.arr
            THEN [events |-> presetEvents, threw |-> TRUE]
            ELSE LET merged == MergeOld(values, oldValues.a)
                 IN [events |-> presetEvents \o
                        (IF ShouldCommit(merged) THEN <<WriteEvent(Arr(merged))>> ELSE <<>>),
                     threw |-> FALSE]
       ELSE [events |-> presetEvents \o
                (IF ShouldCommit(values) THEN <<WriteEvent(Scalar(values[1]))>> ELSE <<>>),
             threw |-> FALSE]

\* The setter branch of the accessor: what it pushed, did and returned.
SetterOutcome(m, st, params) ==
    IF ~m.present
    THEN [values |-> <<>>, events |-> <<WriteEvent(Scalar(params[1]))>>, threw |-> FALSE]
    ELSE LET prevVal == st[Key]
             loop == Loop(m, params, prevVal, 1, <<>>)
         IN IF loop.threw
            THEN [values |-> loop.values, events |-> <<>>, threw |-> TRUE]
            ELSE LET after == AfterLoop(m, loop.values, st[Key])
                 IN [values |-> loop.values, events |-> after.events,
                     threw |-> after.threw]

\* context.prop(key, value) for every write of the call, in order.
RECURSIVE ApplyWrites(_, _)
ApplyWrites(st, events) ==
    IF events = <<>> THEN st
    ELSE ApplyWrites(IF Head(events).e = "write"
                     THEN [st EXCEPT ![Key] = Head(events).arg] ELSE st,
                     Tail(events))

\* context.prop(key) of the getter branch
AccessorGet(st) == st[Key]

Holder == [k |-> "holder", val |-> Scalar(UNDEFINED)]
Returned(sv) == [k |-> "value", val |-> sv]
Nothing == [k |-> "nothing", val |-> Scalar(UNDEFINED)]

NoCall ==
    [kind |-> "none", params |-> <<>>, before |-> [p \in {Key, Sibling} |-> Scalar(UNDEFINED)],
     values |-> <<>>, events |-> <<>>, ret |-> Nothing, threw |-> FALSE]

ArgLists == UNION { [1..n -> ArgVals] : n \in 1..MaxArgs }

\* transactor(holder, options): a fresh store holding each conf.value.
InitTransactor ==
    /\ meta \in Descriptors
    /\ store = [p \in {Key, Sibling} |-> IF p = Key THEN meta.value ELSE Scalar("n:0")]
    /\ call = NoCall
    /\ nsets = 0

\* holder[prop](...params), params.length >= 1
Setter ==
    /\ nsets < MaxSets
    /\ nsets' = nsets + 1
    /\ \E params \in ArgLists :
        LET out == SetterOutcome(meta, store, params) IN
        /\ store' = ApplyWrites(store, out.events)
        /\ call' = [kind |-> "set", params |-> params, before |-> store,
                    values |-> out.values, events |-> out.events,
                    ret |-> IF out.threw THEN Nothing ELSE Holder,
                    threw |-> out.threw]
        /\ UNCHANGED meta
    /\ UNCHANGED canvasVars
    /\ UNCHANGED storeVars
    /\ UNCHANGED <<utilVars, layerVars, objVars>>

\* holder[prop]()
Getter ==
    /\ call' = [kind |-> "get", params |-> <<>>, before |-> store,
                values |-> <<>>, events |-> <<>>,
                ret |-> Returned(AccessorGet(store)), threw |-> FALSE]
    /\ UNCHANGED <<meta, store, nsets>>
    /\ UNCHANGED canvasVars
    /\ UNCHANGED storeVars
    /\ UNCHANGED <<utilVars, layerVars, objVars>>

---------------------------------------------------------------------------
(* Canvas values: null, undefined, arrays and objects with an identity.    *)

CNull == [t |-> "null", ref |-> 0, elems |-> <<>>, empty |-> FALSE]
CUndefined == [t |-> "undefined", ref |-> 0, elems |-> <<>>, empty |-> FALSE]
CArray(r, e) == [t |-> "array", ref |-> r, elems |-> e, empty |-> FALSE]
CObject(r) == [t |-> "object", ref |-> r, elems |-> <<>>, empty |-> FALSE]
\* A data model and what its isEmpty() answers.
CData(r, isEmpty) == [t |-> "object", ref |-> r, elems |-> <<>>, empty |-> isEmpty]
CString(x) == [t |-> "string", ref |-> 0, elems |-> <<x>>, empty |-> FALSE]

CTruthy(v) == v.t \notin {"null", "undefined"}

\* props of setupChangeListener: the canvas options that are watched.
PropNames == <<"rows", "columns", "detail", "color", "data", "title">>

\* The values a caller commits to each watched property.
PropValues(p) ==
    IF p = "rows"
    THEN {CNull, CArray(1, <<"a">>), CArray(2, <<"a">>), CArray(3, <<"b">>)}
    ELSE IF p = "columns" THEN {CNull, CArray(4, <<"c">>)}
    ELSE IF p = "detail" THEN {CNull, CArray(9, <<"d">>)}
    ELSE IF p = "color" THEN {CObject(5), CObject(6)}
    ELSE IF p = "data" THEN {CNull, CData(7, FALSE), CData(8, TRUE)}
    ELSE {CString("t1"), CString("t2")}

\* The cases of the switch of equalityChecker.
Category(option) ==
    IF option \in {"rows", "columns", "detail"} THEN "Array"
    ELSE IF option \in {"shape", "size", "color", "data", "config"} THEN "Object"
    ELSE "default"

\* arraysEqual(arr1, arr2): "thrown" when arr2 has no length to read.
arraysEqual(arr1, arr2) ==
    IF ~CTruthy(arr2) THEN "thrown"
    ELSE IF Len(arr1.elems) # Len(arr2.elems) THEN "false"
    ELSE IF \A i \in 1..Len(arr1.elems) : arr1.elems[i] = arr2.elems[i] THEN "true"
    ELSE "false"

\* isEqual(type)(oldVal, newVal)
isEqual(type, oldVal, newVal) ==
    IF type = "Array"
    THEN (IF ~CTruthy(oldVal) THEN "false" ELSE arraysEqual(oldVal, newVal))
    ELSE IF oldVal = newVal THEN "true" ELSE "false"

\* checker(oldVal, newVal) of one turn of props.every in equalityChecker
Checker(option, oldVal, newVal) ==
    IF Category(option) = "default" THEN "true"
    ELSE isEqual(Category(option), oldVal, newVal)

\* props.every(...) of equalityChecker from position i on: "true", "false"
\* (it stops at the first false) or "thrown".
RECURSIVE EveryEqual(_, _, _)
EveryEqual(props, params, i) ==
    IF i > Len(props) THEN "true"
    ELSE LET r == Checker(props[i], params[i][1], params[i][2])
         IN IF r = "true" THEN EveryEqual(props, params, i + 1) ELSE r

\* equalityChecker(props, params): "changed", "same" or "thrown".
equalityChecker(props, params) ==
    LET every == EveryEqual(props, params, 1)
    IN IF every = "thrown" THEN "thrown"
       ELSE IF every = "true" THEN "same" ELSE "changed"

\* A validity filter that lets every value through.
updateCheckerAlways(props, params) == TRUE

\* updateChecker(props, params)
updateChecker(props, params) ==
    \A i \in 1..Len(props) :
        LET val == params[i][2] IN
        IF props[i] \in {"rows", "columns"} THEN val.t # "null"
        ELSE IF props[i] = "data" THEN CTruthy(val) /\ ~val.empty
        ELSE TRUE

\* The callback setupChangeListener registers: what it decided and did.
Listener(params, mounted) ==
    LET equality == equalityChecker(PropNames, params)
        updateProps == updateChecker(PropNames, params)
    IN [fired |-> TRUE, params |-> params, equality |-> equality,
        valid |-> updateProps, mounted |-> mounted,
        events |-> IF equality # "thrown" /\ updateProps /\ mounted
                   THEN <<"dispatchProps", "render">> ELSE <<>>]

NoParams == [i \in 1..Len(PropNames) |-> <<CUndefined, CUndefined>>]

NoInv ==
    [fired |-> FALSE, params |-> NoParams, equality |-> "same", valid |-> FALSE,
     mounted |-> FALSE, events |-> <<>>]

\* The channel of the hyperdis model each Store method registers on.
ChangeChannelOn == "on"
ChangeChannel == "next"
ImmediateChannelNext == "next"
ImmediateChannel == "on"

\* A canvas after construction: no rows, columns or data yet, not mounted.
InitCanvas ==
    /\ cprops = [p \in {PropNames[i] : i \in 1..Len(PropNames)} |->
                    IF p = "color" THEN CObject(5)
                    ELSE IF p = "title" THEN CString("t1")
                    ELSE CNull]
    /\ flushed = cprops
    /\ ncommits = 0
    /\ mount = FALSE
    /\ inv = NoInv

\* The [old, new] pairs the store hands to a listener of PropNames.
Pairs(old, new) == [i \in 1..Len(PropNames) |-> <<old[PropNames[i]], new[PropNames[i]]>>]

\* store.commit(prop, value) through a canvas accessor. A listener on the
\* "on" channel of the model runs inside the commit; one on the "next"
\* channel is left for the frame that follows the turn.
CommitProp ==
    /\ ncommits < MaxCommits
    /\ \E i \in 1..Len(PropNames) : \E v \in PropValues(PropNames[i]) :
        /\ v # cprops[PropNames[i]]
        /\ cprops' = [cprops EXCEPT ![PropNames[i]] = v]
    /\ ncommits' = ncommits + 1
    /\ IF ChangeChannel = "on"
       THEN inv' = Listener(Pairs(flushed, cprops'), mount) /\ flushed' = cprops'
       ELSE inv' = NoInv /\ flushed' = flushed
    /\ UNCHANGED mount
    /\ UNCHANGED transactorVars
    /\ UNCHANGED storeVars
    /\ UNCHANGED <<utilVars, layerVars, objVars>>

\* canvas.mount(element), or the element going away
SetMount ==
    /\ mount' = ~mount
    /\ UNCHANGED <<cprops, flushed, ncommits, inv>>
    /\ UNCHANGED transactorVars
    /\ UNCHANGED storeVars
    /\ UNCHANGED <<utilVars, layerVars, objVars>>

\* The frame that follows a turn of commits: the store notifies the change
\* listener of the pending changes, one [old, new] pair per watched property
\* (Store.registerChangeListener hands the callback to hyperdis' model.next,
\* which calls it once after the commits of the turn).
NextFrame ==
    /\ ncommits > 0
    /\ inv' = IF cprops # flushed THEN Listener(Pairs(flushed, cprops), mount) ELSE inv
    /\ flushed' = cprops
    /\ ncommits' = 0
    /\ UNCHANGED <<cprops, mount>>
    /\ UNCHANGED transactorVars
    /\ UNCHANGED storeVars
    /\ UNCHANGED <<utilVars, layerVars, objVars>>
---------------------------------------------------------------------------
(* The Store: a wrapper of a hyperdis Model that keeps the handles of the  *)
(* listeners it registers.                                                 *)

\* Property paths of the store and the values committed to them.
StoreProps == {"data", "domain"}
StoreValues == {0, 1}

\* props of a registration: the paths a listener depends on.
PropSets == {{"data"}, {"data", "domain"}}

RegisterChange == "registerChangeListener"
RegisterImmediate == "registerImmediateListener"

\* The channel of Store.model a registration method uses.
ChannelOf(method) ==
    IF method = RegisterChange THEN ChangeChannel ELSE ImmediateChannel

\* this._listeners.push(fn), with a variant that keeps no handle.
PushHandleNone(ls, fn) == ls
PushHandle(ls, fn) == Append(ls, fn)

\* model.next / model.on: a new listener of the model.
NewNode(method, props) ==
    [method |-> method, channel |-> ChannelOf(method), props |-> props,
     active |-> TRUE, pending |-> "no"]

\* Whether model.next / model.on calls the callback during registration:
\* it does when instantCall is truthy, it does not on the next channel
\* without it; on the on channel without it the source does not say.
CalledOnRegistration(channel, instantCall) ==
    IF instantCall THEN {TRUE}
    ELSE IF channel = "on" THEN {TRUE, FALSE} ELSE {FALSE}

\* fn(): the handle of listener fn detaches it; called again it does
\* nothing. A notification of the listener that is still waiting for its
\* frame is either delivered later (keep) or dropped.
Detach(ns, fn, keep) ==
    IF ~ns[fn].active THEN ns
    ELSE [ns EXCEPT ![fn].active = FALSE,
                    ![fn].pending = IF @ = "yes" /\ keep THEN "stale" ELSE "no"]

\* A forEach that stops after the first handle.
OnlyFirstHandle(ns, hs, i, keep) ==
    IF hs = <<>> THEN ns ELSE Detach(ns, hs[1], keep)

\* this._listeners.forEach(fn => fn()) from handle i on
RECURSIVE ForEachHandle(_, _, _, _)
ForEachHandle(ns, hs, i, keep) ==
    IF i > Len(hs) THEN ns
    ELSE ForEachHandle(Detach(ns, hs[i], keep), hs, i + 1, keep)

Ids == 1..Len(nodes)
ActiveSet == {i \in Ids : nodes[i].active}

\* The attached listeners of a channel that depend on property p.
Watching(channel, p) ==
    {i \in ActiveSet : nodes[i].channel = channel /\ p \in nodes[i].props}

InitModel == [p \in StoreProps |-> 0]
NoBefore == [model |-> InitModel, nodes |-> <<>>, listeners |-> <<>>]

NoOp ==
    [op |-> "none", prop |-> "", called |-> {}, stale |-> {}, nth |-> 0,
     before |-> NoBefore, map |-> <<>>]

\* new Store(config)
InitStore ==
    /\ model = InitModel
    /\ nodes = <<>>
    /\ listeners = <<>>
    /\ detachedUpTo = 0
    /\ last = NoOp

\* Store.registerChangeListener / Store.registerImmediateListener
\* (propNames, callBack, instantCall); registerListeners calls them without
\* instantCall.
Register(method) ==
    /\ Len(nodes) < MaxListeners
    /\ \E props \in PropSets : \E instantCall \in BOOLEAN :
       \E called \in CalledOnRegistration(ChannelOf(method), instantCall) :
        /\ nodes' = Append(nodes, NewNode(method, props))
        /\ listeners' = PushHandle(listeners, Len(nodes) + 1)
        /\ last' = [NoOp EXCEPT !.op = method,
                                !.called = IF called THEN {Len(nodes) + 1} ELSE {}]
    /\ UNCHANGED <<model, detachedUpTo>>
    /\ UNCHANGED transactorVars
    /\ UNCHANGED canvasVars
    /\ UNCHANGED <<utilVars, layerVars, objVars>>

registerChangeListener == Register(RegisterChange)

\* The listener maps handed to registerListeners: entries {props, type}.
ListenerMaps ==
    UNION {[1..k -> [type : {RegisterChange, RegisterImmediate}, props : PropSets]] :
              k \in 1..MaxListeners}

\* context.store()[propType], with a variant that takes one method for
\* every entry.
MethodAlwaysChange(propType) == RegisterChange
MethodNamed(propType) == propType

\* The loop of registerListeners from entry i on: one registration per
\* entry, each pushing its handle.
RECURSIVE RegisterEach(_, _, _, _)
RegisterEach(ns, ls, map, i) ==
    IF i > Len(map) THEN [nodes |-> ns, listeners |-> ls]
    ELSE RegisterEach(Append(ns, NewNode(MethodNamed(map[i].type), map[i].props)),
                      PushHandle(ls, Len(ns) + 1), map, i + 1)

\* registerListeners(context, listenerMap): no entry is registered with
\* instantCall.
registerListeners ==
    /\ \E map \in ListenerMaps :
        /\ Len(nodes) + Len(map) <= MaxListeners
        /\ nodes' = RegisterEach(nodes, listeners, map, 1).nodes
        /\ listeners' = RegisterEach(nodes, listeners, map, 1).listeners
        /\ \E called \in SUBSET ((Len(nodes) + 1)..(Len(nodes) + Len(map))) :
            /\ \A i \in (Len(nodes) + 1)..(Len(nodes) + Len(map)) :
                   (i \in called) \in CalledOnRegistration(nodes'[i].channel, FALSE)
            /\ last' = [NoOp EXCEPT !.op = "registerListeners", !.map = map,
                                    !.called = called,
                                    !.before = [model |-> model, nodes |-> nodes,
                                                listeners |-> listeners]]
    /\ UNCHANGED <<model, detachedUpTo>>
    /\ UNCHANGED transactorVars
    /\ UNCHANGED canvasVars
    /\ UNCHANGED <<utilVars, layerVars, objVars>>

registerImmediateListener == Register(RegisterImmediate)

\* Store.commit(propName, value): model.prop(propName, value) calls the
\* listeners of the on channel that depend on propName and leaves a
\* notification for those of the next channel.
commit ==
    /\ \E p \in StoreProps : \E v \in StoreValues :
        /\ v # model[p]
        /\ model' = [model EXCEPT ![p] = v]
        /\ nodes' = [i \in Ids |->
                        IF i \in Watching("next", p)
                        THEN [nodes[i] EXCEPT !.pending = "yes"] ELSE nodes[i]]
        /\ last' = [NoOp EXCEPT !.op = "commit", !.prop = p,
                                !.called = Watching("on", p)]
    /\ UNCHANGED <<listeners, detachedUpTo>>
    /\ UNCHANGED transactorVars
    /\ UNCHANGED canvasVars
    /\ UNCHANGED <<utilVars, layerVars, objVars>>

\* The frame after a turn: the model calls every listener of the next
\* channel that has a notification waiting, once.
frame ==
    /\ \E i \in Ids : nodes[i].pending # "no"
    /\ nodes' = [i \in Ids |-> [nodes[i] EXCEPT !.pending = "no"]]
    /\ last' = [NoOp EXCEPT !.op = "frame",
                            !.called = {i \in Ids : nodes[i].pending # "no"},
                            !.stale = {i \in Ids : nodes[i].pending = "stale"}]
    /\ UNCHANGED <<model, listeners, detachedUpTo>>
    /\ UNCHANGED transactorVars
    /\ UNCHANGED canvasVars
    /\ UNCHANGED <<utilVars, layerVars, objVars>>

\* Store.unsubscribeAll()
unsubscribeAll ==
    /\ \E keep \in BOOLEAN : nodes' = ForEachHandle(nodes, listeners, 1, keep)
    /\ detachedUpTo' = Len(nodes)
    /\ last' = [NoOp EXCEPT !.op = "unsubscribeAll",
                            !.nth = IF last.op = "unsubscribeAll" THEN 2 ELSE 1,
                            !.before = [model |-> model, nodes |-> nodes,
                                         listeners |-> listeners]]
    /\ UNCHANGED <<model, listeners>>
    /\ UNCHANGED transactorVars
    /\ UNCHANGED canvasVars
    /\ UNCHANGED <<utilVars, layerVars, objVars>>

---------------------------------------------------------------------------
(* Utility functions of common-utils.js, each applied to drawn arguments   *)

SeqsUpTo(S, n) == UNION {[1..k -> S] : k \in 0..n}

\* Math.min() and Math.max() of no argument: Infinity and -Infinity, here
\* numbers beyond every number a domain holds.
Infinity == 999
MinusInfinity == -999

\* Math.min(...xs), Math.max(...xs) from position i on, acc the best so far.
RECURSIVE MathMin(_, _, _)
MathMin(xs, i, acc) ==
    IF i > Len(xs) THEN acc
    ELSE MathMin(xs, i + 1, IF xs[i] < acc THEN xs[i] ELSE acc)

RECURSIVE MathMax(_, _, _)
MathMax(xs, i, acc) ==
    IF i > Len(xs) THEN acc
    ELSE MathMax(xs, i + 1, IF xs[i] > acc THEN xs[i] ELSE acc)

\* [].concat(...domains) from position i on
RECURSIVE Concat(_, _)
Concat(domains, i) ==
    IF i > Len(domains) THEN <<>> ELSE domains[i] \o Concat(domains, i + 1)

CATEGORICAL == "categorical"
CONTINUOUS == "continuous"

\* A unionDomain that looks at the first contributing domain only.
unionDomainFirst(domains, fieldType) ==
    LET ds == SelectSeq(domains, LAMBDA dom : Len(dom) # 0)
    IN IF ds = <<>> THEN <<Infinity, MinusInfinity>> ELSE ds[1]

\* unionDomain(domains, fieldType)
unionDomain(domains, fieldType) ==
    LET ds == SelectSeq(domains, LAMBDA dom : Len(dom) # 0)
    IN IF fieldType = CATEGORICAL THEN Concat(ds, 1)
       ELSE <<MathMin([i \in 1..Len(ds) |-> ds[i][1]], 1, Infinity),
              MathMax([i \in 1..Len(ds) |-> ds[i][2]], 1, MinusInfinity)>>

\* The domains of a continuous field, [lower, upper] or empty, and those of
\* a categorical field.
Bounds == {-1, 2, 5, 10}
ContinuousDomains == {<<>>} \cup {<<lo, hi>> : lo \in Bounds, hi \in Bounds}
Categories == {"a", "b", "c"}
CategoricalDomains ==
    {<<>>} \cup {<<x>> : x \in Categories}
           \cup {d \in Categories \X Categories : d[1] # d[2]}

unionDomainArgs(fieldType) ==
    {[fn |-> "unionDomain", domains |-> ds, fieldType |-> fieldType] :
        ds \in SeqsUpTo(IF fieldType = CONTINUOUS THEN ContinuousDomains
                        ELSE CategoricalDomains, MaxDomains)}

NoArgs == [fn |-> "none"]
NotCalled == [done |-> FALSE]
Gave(v) == [done |-> TRUE, threw |-> FALSE, value |-> v]
Threw == [done |-> TRUE, threw |-> TRUE]

\* The values handed to typeObj as obj: what typeof says of them and the
\* keys the in operator finds in them.
JSValue(t, keys) == [t |-> t, keys |-> keys]
KeyNames == {"a", "b"}
ObjValues ==
    {JSValue(t, {}) : t \in {"undefined", "number", "string", "null", "array"}}
    \cup {JSValue("object", ks) : ks \in SUBSET KeyNames}

TypeOf(v) == IF v.t \in {"null", "array", "object"} THEN "object" ELSE v.t

\* key in obj: a TypeError when obj is null (or undefined).
In(key, obj) ==
    IF obj.t \in {"null", "undefined"} THEN "thrown"
    ELSE IF key \in obj.keys THEN "true" ELSE "false"

\* checkExistence(keys, obj): the keys obj lacks, unless the in operator
\* threw on the way.
RECURSIVE checkExistence(_, _)
checkExistence(keys, obj) ==
    IF keys = <<>> THEN [threw |-> FALSE, keys |-> <<>>]
    ELSE LET found == In(Head(keys), obj)
             rest == checkExistence(Tail(keys), obj)
         IN IF found = "thrown" THEN [threw |-> TRUE, keys |-> <<>>]
            ELSE IF found = "true" THEN rest
            ELSE [rest EXCEPT !.keys = <<Head(keys)>> \o @]

\* Error(message), and a value handed back as it is.
ErrorValue(message, keys) == [error |-> TRUE, message |-> message, keys |-> keys,
                             obj |-> JSValue("undefined", {})]
Same(obj) == [error |-> FALSE, message |-> "", keys |-> <<>>, obj |-> obj]

\* sanitizeIP.typeObj(keys, obj)
typeObj(keys, obj) ==
    IF TypeOf(obj) # "object"
    THEN Gave(ErrorValue("Argument type object expected", <<>>))
    ELSE LET nonExistentKeys == checkExistence(keys, obj)
         IN IF nonExistentKeys.threw THEN Threw
            ELSE IF Len(nonExistentKeys.keys) # 0
            THEN Gave(ErrorValue("Missing keys from parameter", nonExistentKeys.keys))
            ELSE Gave(Same(obj))

typeObjArgs ==
    {[fn |-> "typeObj", keys |-> ks, obj |-> o] :
        ks \in SeqsUpTo(KeyNames, MaxKeys), o \in ObjValues}

typeObjCall ==
    /\ args.fn = "typeObj" /\ ~ret.done
    /\ ret' = typeObj(args.keys, args.obj)
    /\ UNCHANGED <<args, layerVars, objVars>>
    /\ UNCHANGED <<transactorVars, canvasVars, storeVars>>

\* A property the store given to transactor does not hold.
ABSENT == "absent"
HeldValues == {ABSENT, "n:0", JSFALSE, "s:", NULL, "n:5"}
DefaultValues == {"n:1", "s:5px"}
OptionProps == <<Key, Sibling>>

\* store.prop(prop) of the store given to transactor
StoreProp(held, prop) == IF held[prop] = ABSENT THEN UNDEFINED ELSE held[prop]

\* if (!store.prop(prop))
NeedsAppend(held, prop) == ~Truthy(StoreProp(held, prop))

\* store.append({ [prop]: conf.value }): the property gets conf.value; on a
\* property the store already holds the append either replaces the value
\* or leaves it (replaces tells which).
Appended(held, value, prop, replaces) ==
    IF held[prop] = ABSENT \/ replaces THEN value[prop] ELSE held[prop]

\* The loop of transactor over options from position i on: the store it
\* leaves and the properties it appended.
RECURSIVE BuildAccessors(_, _, _, _)
BuildAccessors(held, value, i, replaces) ==
    IF i > Len(OptionProps) THEN [store |-> held, appends |-> <<>>]
    ELSE LET prop == OptionProps[i]
             rest == BuildAccessors(held, value, i + 1, replaces)
         IN IF NeedsAppend(held, prop)
            THEN [store |-> [rest.store EXCEPT
                                ![prop] = Appended(held, value, prop, replaces)],
                  appends |-> <<prop>> \o rest.appends]
            ELSE rest

transactorArgs ==
    {[fn |-> "transactor", held |-> h, value |-> v] :
        h \in [{Key, Sibling} -> HeldValues], v \in [{Key, Sibling} -> DefaultValues]}

\* transactor(holder, options, model)
transactorCall ==
    /\ args.fn = "transactor" /\ ~ret.done
    /\ \E replaces \in BOOLEAN :
           ret' = Gave(BuildAccessors(args.held, args.value, 1, replaces))
    /\ UNCHANGED <<args, layerVars, objVars>>
    /\ UNCHANGED <<transactorVars, canvasVars, storeVars>>

unionDomainCall ==
    /\ args.fn = "unionDomain" /\ ~ret.done
    /\ ret' = Gave(unionDomain(args.domains, args.fieldType))
    /\ UNCHANGED <<args, layerVars, objVars>>
    /\ UNCHANGED <<transactorVars, canvasVars, storeVars>>

\* The keys of a dependency graph, in the order Object.keys gives them.
NodeNames == <<"a", "b", "c", "d">>
GraphKeys(n) == SubSeq(NodeNames, 1, n)

GraphNames(n) == {NodeNames[i] : i \in 1..n}

\* The graph of n keys in which each key has the edges deps gives it, all
\* leading to keys of the graph.
Graph(n, deps) ==
    [name \in GraphNames(n) |-> SelectSeq(GraphKeys(n), LAMBDA k : k \in deps[name])]

RECURSIVE visit(_, _, _, _)
RECURSIVE VisitEdges(_, _, _, _, _)

\* visit(name) of getDependencyOrder on st, the order built and the names
\* visited so far; full tells that it returned true.
visit(graph, keys, name, st) ==
    IF Len(st.dependencyOrder) = Len(keys) THEN [st EXCEPT !.full = TRUE]
    ELSE LET marked == [st EXCEPT !.visited = @ \cup {name}]
             after == VisitEdges(graph, keys, graph[name], 1, marked)
         IN [after EXCEPT !.dependencyOrder = Append(@, name), !.full = FALSE]

\* The loop of visit over edges from position e on.
VisitEdges(graph, keys, edges, e, st) ==
    IF e > Len(edges) THEN st
    ELSE LET dep == edges[e]
         IN VisitEdges(graph, keys, edges, e + 1,
                       IF dep \notin st.visited THEN visit(graph, keys, dep, st)
                       ELSE st)

\* The loop of getDependencyOrder over keys from position i on.
RECURSIVE VisitKeys(_, _, _, _)
VisitKeys(graph, keys, i, st) ==
    IF i > Len(keys) THEN st
    ELSE LET after == visit(graph, keys, keys[i], st)
         IN IF after.full THEN after ELSE VisitKeys(graph, keys, i + 1, after)

\* getDependencyOrder(graph)
getDependencyOrder(graph, keys) ==
    VisitKeys(graph, keys, 1,
              [dependencyOrder |-> <<>>, visited |-> {}, full |-> FALSE]).dependencyOrder

\* The arguments of a call: any graph of up to MaxNodes keys.
getDependencyOrderArgs ==
    \E n \in 1..MaxNodes : \E deps \in [GraphNames(n) -> SUBSET GraphNames(n)] :
        args = [fn |-> "getDependencyOrder", keys |-> GraphKeys(n),
                graph |-> Graph(n, deps)]

getDependencyOrderCall ==
    /\ args.fn = "getDependencyOrder" /\ ~ret.done
    /\ ret' = Gave(getDependencyOrder(args.graph, args.keys))
    /\ UNCHANGED <<args, layerVars, objVars>>
    /\ UNCHANGED <<transactorVars, canvasVars, storeVars>>

\* The values a row holds in a field: a number, null, a string that is no
\* number, or nothing (undefined).
Num(n) == [t |-> "number", n |-> n]
NullValue == [t |-> "null", n |-> 0]
TextValue == [t |-> "string", n |-> 0]
Undefined == [t |-> "undefined", n |-> 0]

\* isNaN(v) and the number Math.min and Math.max take v for.
isNaN(v) == v.t \in {"undefined", "string"}
ToNumber(v) == IF v.t = "null" THEN 0 ELSE v.n

\* d[field]; the field is "undefined" where fields has no such entry.
FieldOf(d, field) == IF field = "undefined" THEN Undefined ELSE d[field]
FieldAt(fields, i) == IF i <= Len(fields) THEN fields[i] ELSE "undefined"

Rows == [x : {Num(2), Num(5), NullValue, Undefined}, y : {Num(1), TextValue}]

MapField(arr, field) == [i \in 1..Len(arr) |-> FieldOf(arr[i], field)]

\* data.filter(d => !isNaN(d[field])).map(d => d[field]), as numbers
Numbers(arr, field) ==
    LET kept == SelectSeq(MapField(arr, field), LAMBDA v : ~isNaN(v))
    IN [i \in 1..Len(kept) |-> ToNumber(kept[i])]

getMax(arr, field) == MathMax(Numbers(arr, field), 1, MinusInfinity)
getMin(arr, field) == MathMin(Numbers(arr, field), 1, Infinity)

\* data = data[0] instanceof Array ? data : [data]
SeriesOf(data) == IF data.isList THEN data.list ELSE <<data.rows>>

\* getDomainFromData(data, fields, fieldType)
getDomainFromData(data, fields, fieldType) ==
    LET series == SeriesOf(data)
    IN IF fieldType = CATEGORICAL
       THEN Concat([k \in 1..Len(series) |->
                       SelectSeq(MapField(series[k], FieldAt(fields, 1)),
                                 LAMBDA d : d # Undefined)], 1)
       ELSE LET domArr ==
                  [k \in 1..Len(series) |->
                     LET firstMin == getMin(series[k], FieldAt(fields, 1))
                         secondMin == getMin(series[k], FieldAt(fields, 2))
                         firstMax == getMax(series[k], FieldAt(fields, 1))
                         secondMax == getMax(series[k], FieldAt(fields, 2))
                     IN <<MathMin(<<firstMin, secondMin>>, 1, Infinity),
                          MathMax(<<firstMax, secondMax>>, 1, MinusInfinity)>>]
            IN <<MathMin([k \in 1..Len(domArr) |-> domArr[k][1]], 1, Infinity),
                 MathMax([k \in 1..Len(domArr) |-> domArr[k][2]], 1, MinusInfinity)>>

\* One series of up to MaxRows rows, or a list of one or two shorter
\* series.
OneSeries == {[isList |-> FALSE, rows |-> rows, list |-> <<>>] : rows \in SeqsUpTo(Rows, MaxRows)}
ListsOfSeries ==
    {[isList |-> TRUE, rows |-> <<>>, list |-> list] :
        list \in UNION {[1..k -> SeqsUpTo(Rows, MaxRows - 1)] : k \in 1..2}}

getDomainFromDataArgs(data) ==
    {[fn |-> "getDomainFromData", data |-> d, fields |-> fs, fieldType |-> ft] :
        d \in data, fs \in {<<"x">>, <<"x", "y">>}, ft \in {CATEGORICAL, CONTINUOUS}}

getDomainFromDataCall ==
    /\ args.fn = "getDomainFromData" /\ ~ret.done
    /\ ret' = Gave(getDomainFromData(args.data, args.fields, args.fieldType))
    /\ UNCHANGED <<args, layerVars, objVars>>
    /\ UNCHANGED <<transactorVars, canvasVars, storeVars>>

\* Math.abs(x) and Math.floor((low + high) / 2)
Abs(x) == IF x < 0 THEN 0 - x ELSE x
Mid(low, high) == (low + high) \div 2

\* The while loop of getClosestIndexOf on arr (indices from 0, so arr[i] is
\* At(arr, i)): the high it ends with, or that it is still running after
\* fuel turns.
At(arr, i) == arr[i + 1]
RECURSIVE Search(_, _, _, _, _)
Search(arr, value, low, high, fuel) ==
    IF ~(low < high) THEN [ended |-> TRUE, high |-> high]
    ELSE IF fuel = 0 THEN [ended |-> FALSE, high |-> high]
    ELSE LET mid == Mid(low, high)
             d1 == Abs(At(arr, mid) - value)
             d2 == Abs(At(arr, mid + 1) - value)
         IN IF d2 <= d1 THEN Search(arr, value, mid + 1, high, fuel - 1)
            ELSE Search(arr, value, low, mid, fuel - 1)

\* side: absent, or one of the two strings.
NoSide == "undefined"
Sides == {NoSide, "left", "right"}

\* getClosestIndexOf(arr, value, side)
getClosestIndexOf(arr, value, side) ==
    LET loop == Search(arr, value, 0, Len(arr) - 1, Len(arr))
        high == loop.high
        highVal == At(arr, high)
    IN [ended |-> loop.ended,
        index |-> IF side = NoSide THEN high
                  ELSE IF highVal = value THEN high
                  ELSE IF highVal > value
                  THEN (IF high = 0 THEN high
                        ELSE IF side = "left" THEN high - 1 ELSE high)
                  ELSE IF high = Len(arr) - 1 THEN high
                  ELSE IF side = "left" THEN high ELSE high + 1]

\* The non-empty ascending arrays of up to MaxLength numbers, and the
\* values looked for.
ArrayValues == {1, 3, 5}
Ascending ==
    {arr \in UNION {[1..n -> ArrayValues] : n \in 1..MaxLength} :
        \A i \in 1..(Len(arr) - 1) : arr[i] <= arr[i + 1]}
SearchValues == 0..6

getClosestIndexOfArgs ==
    {[fn |-> "getClosestIndexOf", arr |-> arr, value |-> value, side |-> side] :
        arr \in Ascending, value \in SearchValues, side \in Sides}

getClosestIndexOfCall ==
    /\ args.fn = "getClosestIndexOf" /\ ~ret.done
    /\ ret' = Gave(getClosestIndexOf(args.arr, args.value, args.side))
    /\ UNCHANGED <<args, layerVars, objVars>>
    /\ UNCHANGED <<transactorVars, canvasVars, storeVars>>

\* No utility function under test.
InitUtilsIdle == args = NoArgs /\ ret = NotCalled

InitUtils ==
    /\ \/ args \in unionDomainArgs(CONTINUOUS)
       \/ args \in unionDomainArgs(CATEGORICAL)
       \/ args \in typeObjArgs
       \/ args \in transactorArgs
    /\ ret = NotCalled

---------------------------------------------------------------------------
(* Objects with state of their own: a curried function, generated          *)
(* accessors                                                               *)

NoObject == [kind |-> "none"]
NoOperation == [fn |-> "none", complete |-> TRUE, supplied |-> <<>>]

InitObjectIdle == subject = NoObject /\ op = NoOperation

\* fn.length of the function given to curry, and the arguments it is
\* applied to.
FnLength == 2
CurryValues == {1, 2}

\* fn(...queue): a function of cardinality parameters takes the first
\* cardinality arguments; it gives the tuple of them.
Fn(cardinality, queue) == SubSeq(queue, 1, cardinality)

InterFn == [t |-> "interFn", v |-> <<>>]
FnValue(v) == [t |-> "value", v |-> v]

\* interFn(...params) on the queue of the closure: the queue it leaves and
\* what it returns.
interFn(cardinality, queue, params) ==
    LET pushed == queue \o params
    IN [queue |-> pushed,
        result |-> IF Len(pushed) >= cardinality
                   THEN FnValue(Fn(cardinality, pushed)) ELSE InterFn]

\* curry(fn)
InitCurry ==
    /\ subject = [kind |-> "curry", cardinality |-> FnLength, queue |-> <<>>,
              applications |-> 0]
    /\ op = NoOperation

\* One call of the curried function, within an application that supplies
\* the arguments of fn over one or more calls; supplied are the arguments of
\* the application so far.
curryCall ==
    /\ subject.kind = "curry"
    /\ subject.applications < MaxApplications
    /\ LET before == IF op.complete THEN <<>> ELSE op.supplied
       IN \E n \in 1..(subject.cardinality - Len(before)) : \E params \in [1..n -> CurryValues] :
           LET did == interFn(subject.cardinality, subject.queue, params)
               supplied == before \o params
               complete == Len(supplied) = subject.cardinality
           IN /\ subject' = [subject EXCEPT !.queue = did.queue,
                                    !.applications = IF complete THEN @ + 1 ELSE @]
              /\ op' = [fn |-> "interFn", params |-> params, supplied |-> supplied,
                        complete |-> complete, result |-> did.result]
    /\ UNCHANGED <<transactorVars, canvasVars, storeVars, utilVars, layerVars>>

\* The values an accessor of generateGetterSetters is called with.
AccessorValues == {UNDEFINED, "n:0", "n:5", "s:5px", "s:"}

\* props[prop].typeChecker and props[prop].sanitization: absent, or a
\* function.
TypeCheckers == {"none", "isNumber"}
Sanitizations == {"none", "intSanitizer"}

TheContext == [t |-> "context", v |-> UNDEFINED]

\* sanitization(context, params[0]) where there is one
SanitizedValue(sanitization, param) ==
    IF sanitization = "none" THEN param ELSE intSanitizer(param)

\* typeChecker && !typeChecker(value)
FailsTypeChecker(typeChecker, value) ==
    typeChecker # "none" /\ ~Truthy(TypeCheckFn(typeChecker, value))

\* An accessor that stores the argument as it was passed.
AccessorStoresRaw(c, params) ==
    IF Len(params) # 0
    THEN LET value == SanitizedValue(c.sanitization, params[1])
         IN IF value = THROWN
            THEN [field |-> c.field, threw |-> TRUE, result |-> TheContext]
            ELSE IF FailsTypeChecker(c.typeChecker, value)
            THEN [field |-> c.field, threw |-> FALSE, result |-> FnValue(c.field)]
            ELSE [field |-> params[1], threw |-> FALSE, result |-> TheContext]
    ELSE [field |-> c.field, threw |-> FALSE, result |-> FnValue(c.field)]

\* context[prop](...params) as generateGetterSetters installs it: the
\* backing field it leaves and what it returns (or that it threw, which
\* only the sanitization can make it do).
Accessor(c, params) ==
    IF Len(params) # 0
    THEN LET value == SanitizedValue(c.sanitization, params[1])
         IN IF value = THROWN
            THEN [field |-> c.field, threw |-> TRUE, result |-> TheContext]
            ELSE IF FailsTypeChecker(c.typeChecker, value)
            THEN [field |-> c.field, threw |-> FALSE, result |-> FnValue(c.field)]
            ELSE [field |-> value, threw |-> FALSE, result |-> TheContext]
    ELSE [field |-> c.field, threw |-> FALSE, result |-> FnValue(c.field)]

\* generateGetterSetters(context, props) for one prop; nothing has been
\* assigned to the backing field.
InitAccessor ==
    /\ \E typeChecker \in TypeCheckers : \E sanitization \in Sanitizations :
        subject = [kind |-> "accessor", typeChecker |-> typeChecker,
                   sanitization |-> sanitization, field |-> UNDEFINED]
    /\ op = NoOperation

\* One call of the accessor.
accessorCall ==
    /\ subject.kind = "accessor"
    /\ \E params \in SeqsUpTo(AccessorValues, MaxArgs) :
        LET did == Accessor(subject, params)
        IN /\ subject' = [subject EXCEPT !.field = did.field]
           /\ op' = [fn |-> "accessor", params |-> params, threw |-> did.threw,
                     result |-> did.result, before |-> subject.field,
                     complete |-> TRUE, supplied |-> <<>>]
    /\ UNCHANGED <<transactorVars, canvasVars, storeVars, utilVars, layerVars>>

\* What the listener of enableChainedTransaction hands to the endpoint
\* from the [old, new] pair it is called with; a variant hands the old
\* value.
ChainedArgumentOld(pair) == pair[1]
ChainedArgument(pair) == pair[2]

\* transactionModel.on(item, listener) for every item: the items whose
\* listener the model calls when property p changes.
ModelOn(items, p) == items \cap {p}

\* enableChainedTransaction(transactionModel, transactionEndpoint,
\* transactionItems): one listener per item on the on channel of the model;
\* atRegistration are the items whose listener the model called while it
\* was registered. calls are the arguments each endpoint method was called
\* with since, changes the values each property was changed to.
InitChained ==
    /\ \E items \in SUBSET StoreProps : \E atRegistration \in SUBSET items :
        /\ \A item \in items :
               (item \in atRegistration) \in CalledOnRegistration("on", FALSE)
        /\ subject = [kind |-> "chained", items |-> items, model |-> InitModel,
                      atRegistration |-> atRegistration,
                      calls |-> [q \in StoreProps |-> <<>>],
                      changes |-> [q \in StoreProps |-> <<>>]]
    /\ op = NoOperation

\* A property of the chained model changes.
chainedChange ==
    /\ subject.kind = "chained"
    /\ \A q \in StoreProps : Len(subject.changes[q]) < MaxCommits
    /\ \E p \in StoreProps : \E v \in StoreValues :
        /\ v # subject.model[p]
        /\ subject' =
             [subject EXCEPT
                !.model[p] = v,
                !.changes[p] = Append(@, v),
                !.calls = [q \in StoreProps |->
                             IF q \in ModelOn(subject.items, p)
                             THEN Append(@[q], ChainedArgument(<<subject.model[p], v>>))
                             ELSE @[q]]]
        /\ op' = [fn |-> "change", prop |-> p, value |-> v,
                  complete |-> TRUE, supplied |-> <<>>]
    /\ UNCHANGED <<transactorVars, canvasVars, storeVars, utilVars, layerVars>>

---------------------------------------------------------------------------
(* The layer and its listeners *)

\* The values the data listener is fired with: nothing, a data model (one
\* of them with no rows) or an object that is no data model.
LData(t, id, empty) == [t |-> t, id |-> id, empty |-> empty]
DataValues ==
    {LData("undefined", 0, FALSE), LData("null", 0, FALSE),
     LData("model", 1, FALSE), LData("model", 2, FALSE), LData("model", 3, TRUE),
     LData("malformed", 4, FALSE)}
LTruthy(d) == d.t \notin {"undefined", "null"}

\* A derived value and the data it goes back to.
Derived(name, id) == <<name, id>>
Origin(value) == value[2]

Step(name, value) == [step |-> name, value |-> value]

\* The derived fields of a layer before any data arrived.
NoDerivation ==
    [encodingFieldsInf |-> Derived("encodingFieldsInf", 0),
     transformType |-> Derived("transformType", 0),
     transformedData |-> Derived("transformedData", 0),
     normalizedData |-> Derived("normalizedData", 0),
     domain |-> Derived("domain", 0)]

\* A derivation that commits the domain before the data is normalized.
DerivationDomainFirst(c, data) ==
    LET encodingFieldsInf == Derived("encodingFieldsInf", data.id)
        transformType == Derived("transformType", data.id)
        transformedData == Derived("transformedData", Origin(transformType))
    IN <<Step("encodingFieldsInf", encodingFieldsInf),
         Step("transformType", transformType),
         Step("transformedData", transformedData),
         Step("domain", Derived("domain", Origin(c.normalizedData))),
         Step("normalizedData", Derived("normalizedData", Origin(transformedData)))>>

\* The body of the data listener: the fields it sets, in order, each from
\* the values set before it.
Derivation(c, data) ==
    LET encodingFieldsInf == Derived("encodingFieldsInf", data.id)
        transformType == Derived("transformType", data.id)
        transformedData == Derived("transformedData", Origin(transformType))
        normalizedData == Derived("normalizedData", Origin(transformedData))
    IN <<Step("encodingFieldsInf", encodingFieldsInf),
         Step("transformType", transformType),
         Step("transformedData", transformedData),
         Step("normalizedData", normalizedData),
         Step("domain", Derived("domain", Origin(normalizedData)))>>

\* The layer after the steps from position i on.
RECURSIVE ApplySteps(_, _, _)
ApplySteps(c, steps, i) ==
    IF i > Len(steps) THEN c
    ELSE ApplySteps([c EXCEPT ![steps[i].step] = steps[i].value], steps, i + 1)

\* The data listener of the layer fired with data, the config holding an
\* encoding or not: what it did, and whether it threw (data.getFieldsConfig
\* of an object that is no data model).
DataListener(c, data, encoding) ==
    IF LTruthy(data) /\ encoding
    THEN IF data.t = "malformed"
         THEN [trace |-> <<>>, threw |-> TRUE, ctx |-> c]
         ELSE [trace |-> Derivation(c, data), threw |-> FALSE,
               ctx |-> ApplySteps(c, Derivation(c, data), 1)]
    ELSE [trace |-> <<>>, threw |-> FALSE, ctx |-> c]

ON_LAYER_DRAW == "onLayerDraw"

\* A domain listener that commits before it renders.
DomainListenerCommitFirst(mnt, renderReturns) ==
    IF mnt = "null" THEN [trace |-> <<>>, threw |-> FALSE]
    ELSE [trace |-> <<Step("commit", ON_LAYER_DRAW), Step("render", mnt)>>,
          threw |-> ~renderReturns]

\* The domain listener of the layer: mnt is what context.mount() gives,
\* renderReturns whether context.render comes back without an exception.
DomainListener(mnt, renderReturns) ==
    IF mnt = "null" THEN [trace |-> <<>>, threw |-> FALSE]
    ELSE IF renderReturns
    THEN [trace |-> <<Step("render", mnt), Step("commit", ON_LAYER_DRAW)>>,
          threw |-> FALSE]
    ELSE [trace |-> <<Step("render", mnt)>>, threw |-> TRUE]

\* context._allOptions of the canvas and the values context[key]() gives.
AllOptions == <<"rows", "columns", "color">>
OptionValues == {"null", "undefined", "value"}

\* A forwarding loop that does not look at the value.
ForwardedNullToo(values, methods, i) ==
    [k \in 1..Cardinality(methods) |->
        Step("forward", SelectSeq(AllOptions, LAMBDA key : key \in methods)[k])]

\* The forwarding loop of dispatchProps from key i on; methods are the keys
\* the visual group has a method for.
RECURSIVE Forwarded(_, _, _)
Forwarded(values, methods, i) ==
    IF i > Len(AllOptions) THEN <<>>
    ELSE (IF values[AllOptions[i]] # "null" /\ AllOptions[i] \in methods
          THEN <<Step("forward", AllOptions[i])>> ELSE <<>>)
         \o Forwarded(values, methods, i + 1)

\* dispatchProps(context)
DispatchProps(values, methods) ==
    <<Step("notify", "beforeupdate")>>
    \o Forwarded(values, methods, 1)
    \o <<Step("createMatrices", ""), Step("_cachedProps", "{}"),
         Step("notify", "initialized"), Step("notify", "updated")>>

NotFired == [handler |-> "none"]

InitLayer == ctx = NoDerivation /\ fired = NotFired

\* The data listener of the layer fires.
dataListener ==
    /\ \E data \in DataValues : \E encoding \in BOOLEAN :
        LET did == DataListener(ctx, data, encoding)
        IN /\ ctx' = did.ctx
           /\ fired' = [handler |-> "data", data |-> data, encoding |-> encoding,
                        trace |-> did.trace, threw |-> did.threw, before |-> ctx]
    /\ UNCHANGED <<transactorVars, canvasVars, storeVars, utilVars, objVars>>

\* The domain listener of the layer fires.
domainListener ==
    /\ \E mnt \in {"null", "element"} : \E renderReturns \in BOOLEAN :
        LET did == DomainListener(mnt, renderReturns)
        IN fired' = [handler |-> "domain", mount |-> mnt,
                     renderReturns |-> renderReturns,
                     trace |-> did.trace, threw |-> did.threw]
    /\ UNCHANGED ctx
    /\ UNCHANGED <<transactorVars, canvasVars, storeVars, utilVars, objVars>>

\* dispatchProps runs on a canvas.
dispatchProps ==
    /\ \E values \in [{AllOptions[i] : i \in 1..Len(AllOptions)} -> OptionValues] :
       \E methods \in SUBSET {AllOptions[i] : i \in 1..Len(AllOptions)} :
        fired' = [handler |-> "dispatchProps", values |-> values,
                  methods |-> methods, trace |-> DispatchProps(values, methods)]
    /\ UNCHANGED ctx
    /\ UNCHANGED <<transactorVars, canvasVars, storeVars, utilVars, objVars>>

---------------------------------------------------------------------------
(* Specifications *)

Init ==
    /\ InitTransactor /\ InitCanvas /\ InitStore /\ InitUtilsIdle /\ InitLayer
    /\ InitObjectIdle

Next == Setter \/ Getter

\* The accessors of one transactor property.
Spec == Init /\ [][Next]_vars

\* No accessor under test.
InitTransactorIdle ==
    /\ meta = NoMeta
    /\ store = [p \in {Key, Sibling} |-> Scalar("n:0")]
    /\ call = NoCall
    /\ nsets = 0

InitCanvasOnly ==
    /\ InitTransactorIdle
    /\ InitCanvas
    /\ InitStore
    /\ InitUtilsIdle
    /\ InitLayer
    /\ InitObjectIdle

NextCanvas == CommitProp \/ SetMount \/ NextFrame

\* The canvas store and its change listener.
SpecCanvas == InitCanvasOnly /\ [][NextCanvas]_vars

NextStore ==
    \/ registerChangeListener
    \/ registerImmediateListener
    \/ registerListeners
    \/ commit
    \/ frame
    \/ unsubscribeAll

\* One Store, its listeners and their handles.
SpecStore == InitCanvasOnly /\ [][NextStore]_vars

InitUtilsOnly ==
    /\ InitTransactorIdle
    /\ InitCanvas
    /\ InitStore
    /\ InitUtils
    /\ InitLayer
    /\ InitObjectIdle

NextUtils ==
    \/ unionDomainCall
    \/ typeObjCall
    \/ transactorCall

InitLayerOnly ==
    /\ InitTransactorIdle
    /\ InitCanvas
    /\ InitStore
    /\ InitUtilsIdle
    /\ InitLayer
    /\ InitObjectIdle

NextLayer == dataListener \/ domainListener \/ dispatchProps

\* The listeners of a layer and dispatchProps of the canvas.
SpecLayer == InitLayerOnly /\ [][NextLayer]_vars

InitAlgorithms ==
    /\ InitTransactorIdle
    /\ InitCanvas
    /\ InitStore
    /\ InitLayer
    /\ InitObjectIdle
    /\ \/ getDependencyOrderArgs
       \/ args \in getDomainFromDataArgs(OneSeries)
       \/ args \in getDomainFromDataArgs(ListsOfSeries)
       \/ args \in getClosestIndexOfArgs
    /\ ret = NotCalled

NextAlgorithms ==
    \/ getDependencyOrderCall
    \/ getDomainFromDataCall
    \/ getClosestIndexOfCall

\* The algorithms of the utilities, each called once on the arguments Init
\* chose.
SpecAlgorithms == InitAlgorithms /\ [][NextAlgorithms]_vars

InitObjects ==
    /\ InitTransactorIdle
    /\ InitCanvas
    /\ InitStore
    /\ InitUtilsIdle
    /\ InitLayer
    /\ \/ InitCurry
       \/ InitAccessor
       \/ InitChained

NextObjects ==
    \/ curryCall
    \/ accessorCall
    \/ chainedChange

\* The objects that keep state between calls.
SpecObjects == InitObjects /\ [][NextObjects]_vars

\* The utility functions, each called once on arguments drawn at the start.
SpecUtils == InitUtilsOnly /\ [][NextUtils]_vars

---------------------------------------------------------------------------
(* The last call, as the properties below read it *)

IsSet == call.kind = "set"
IsGet == call.kind = "get"
Prev == call.before[Key]
Cur == store[Key]
NParams == Len(call.params)
Writes == SelectSeq(call.events, LAMBDA ev : ev.e = "write")
Presets == SelectSeq(call.events, LAMBDA ev : ev.e = "preset")

\* The sanitized form of the argument at position i of the last call.
SanAt(i) == Sanitized(meta, i, call.params[i], Prev)

\* The transactor's type check of position i lets the sanitized value in.
PassesAt(i) == SanAt(i) # THROWN /\ Verdict(meta, i, SanAt(i)) = "push"

\* Position i has a predicate typeCheck and the sanitized value fails it.
FailsPredicateAt(i) ==
    /\ IsPredicate(TypeCheckAt(meta, i))
    /\ SanAt(i) # THROWN
    /\ TypeCheckFn(TypeCheckAt(meta, i), SanAt(i)) # CompareTo(meta, i)

\* C1: on a property with a predicate typeCheck, a setter call all of whose
\* sanitized arguments fail the check leaves the store as it was, and the
\* getter called next returns the value held before the call.
C1_RejectedValueRetained ==
    (IsSet /\ meta.present /\ IsPredicate(meta.typeCheck)
        /\ \A i \in 1..NParams : FailsPredicateAt(i))
    => (store = call.before /\ AccessorGet(store) = Prev)

C1_Witness ==
    /\ IsSet /\ meta.present /\ IsPredicate(meta.typeCheck) /\ ~call.threw
    /\ \A i \in 1..NParams : FailsPredicateAt(i)
    /\ call.params[1] = "s:5px" /\ Cur = Scalar("n:1")

\* What merge-by-position stores at position i.
MergedByPosition(i) ==
    IF i <= NParams /\ call.params[i] # UNDEFINED /\ PassesAt(i) THEN SanAt(i)
    ELSE IF i <= Len(Prev.a) THEN Prev.a[i]
    ELSE UNDEFINED

\* C2: under spreadParams the stored sequence holds, at every position, the
\* argument of that position when it is defined and passes that position's
\* typeCheck, and the previously stored entry otherwise; a rejected or
\* missing argument does not shift the later ones.
C2_MergeByPosition ==
    (IsSet /\ meta.present /\ meta.spreadParams /\ Prev.arr /\ ~call.threw)
    => (Cur.arr /\ \A i \in 1..Len(Cur.a) : Cur.a[i] = MergedByPosition(i))

\* C3: a setter call in which no argument survives type checking writes
\* nothing to the store.
C3_NoWriteWhenNothingSurvives ==
    (IsSet /\ meta.present /\ ~call.threw /\ call.values = <<>>)
    => (Writes = <<>> /\ store = call.before)

\* C4: no setter call raises an exception (stated for descriptors without
\* a sanitization function, so that the exception is the transactor's own).
C4_SetterNeverThrows ==
    (IsSet /\ meta.sanitization = "none") => ~call.threw

\* typeExpected as declared, true when none is declared.
DeclaredExpected == IF meta.typeExpected = UNDEFINED THEN JSTRUE ELSE meta.typeExpected

\* C5: with a predicate typeCheck a value is accepted if and only if
\* typeCheck(value) equals the declared typeExpected (true when none is
\* declared), falsy declarations included.
C5_PredicateAcceptance ==
    (IsSet /\ meta.present /\ IsPredicate(meta.typeCheck) /\ NParams = 1
        /\ SanAt(1) # THROWN)
    => ((call.values = <<SanAt(1)>>)
            <=> (TypeCheckFn(meta.typeCheck, SanAt(1)) = DeclaredExpected))

\* C6: with typeCheck "constructor" a value is accepted if and only if the
\* name of its constructor equals typeExpected, falsy values included.
C6_ConstructorAcceptance ==
    (IsSet /\ meta.present /\ meta.typeCheck = "constructor"
        /\ meta.typeExpected # UNDEFINED /\ NParams = 1 /\ SanAt(1) # THROWN)
    => ((call.values = <<SanAt(1)>>)
            <=> (ConstructorName(SanAt(1)) = meta.typeExpected))

\* C7: a setter call on a property that declares preset invokes preset
\* exactly once, with the first accepted value, before any write; when
\* every argument was rejected the argument is undefined and no write
\* follows.
C7_PresetOnceBeforeWrite ==
    (IsSet /\ meta.present /\ meta.preset /\ ~call.threw)
    => /\ Len(Presets) = 1
       /\ call.events[1] = PresetEvent(First(call.values))
       /\ (call.values = <<>> => Writes = <<>>)

\* C8: a call with arguments returns the holder; a call without arguments
\* returns the stored value and changes nothing in the store (stated for
\* descriptors without a sanitization function).
C8_ReturnValue ==
    /\ (IsSet /\ meta.sanitization = "none") => call.ret = Holder
    /\ IsGet => (call.ret = Returned(Prev) /\ store = call.before)

\* s = sanitization(v, value stored before the call, holder), for the one
\* argument v of the last call.
ExpectedS ==
    IF meta.sanitization = "none" THEN call.params[1]
    ELSE SanitizationFn(meta.sanitization, call.params[1], Prev)

\* C9: on a non-spread property, setter(v) whose sanitized form s passes
\* the type check is followed by a getter returning s; the check is made
\* on s, so when s fails it the store keeps its value whatever the raw v.
C9_SanitizedRoundTrip ==
    (IsSet /\ meta.present /\ ~meta.spreadParams /\ NParams = 1
        /\ ExpectedS # THROWN)
    => IF Verdict(meta, 1, ExpectedS) = "push"
       THEN AccessorGet(store) = Scalar(ExpectedS) /\ ~call.threw
       ELSE store = call.before

C9_Witness ==
    /\ IsSet /\ meta.present /\ ~meta.spreadParams /\ NParams = 1
    /\ meta.sanitization = "intSanitizer" /\ meta.typeCheck = "isNumber"
    /\ call.params[1] = "s:5px" /\ AccessorGet(store) = Scalar("n:5")

\* The equality policy of the change detection: element-wise for the array
\* properties, identity for the others.
PolicyEqual(option, oldVal, newVal) ==
    \/ oldVal = newVal
    \/ /\ Category(option) = "Array"
       /\ oldVal.t = "array" /\ newVal.t = "array"
       /\ oldVal.elems = newVal.elems

NothingChanged ==
    \A i \in 1..Len(PropNames) :
        PolicyEqual(PropNames[i], inv.params[i][1], inv.params[i][2])

\* C10: a run of the canvas change listener in which every watched property
\* equals its old value under the equality policy runs neither
\* dispatchProps nor render.
C10_NoRunWhenNothingChanged ==
    (inv.fired /\ NothingChanged) => inv.events = <<>>

---------------------------------------------------------------------------
(* The last run of the canvas change listener, as the properties read it *)

PropIndex(p) == CHOOSE i \in 1..Len(PropNames) : PropNames[i] = p
OldVal(p) == inv.params[PropIndex(p)][1]
NewVal(p) == inv.params[PropIndex(p)][2]
Downstream == <<"dispatchProps", "render">>

\* C11: the canvas change listener runs neither dispatchProps nor render
\* when the new value of rows is null, or of columns is null, or the new
\* data is absent or reports isEmpty(); with rows and columns still null a
\* commit of data alone starts nothing although the equality check reports
\* a change.
C11_NoRunOnInvalidValues ==
    (inv.fired /\ (\/ NewVal("rows").t = "null"
                   \/ NewVal("columns").t = "null"
                   \/ ~CTruthy(NewVal("data"))
                   \/ NewVal("data").empty))
    => inv.events = <<>>

C11_Witness ==
    /\ inv.fired /\ inv.mounted
    /\ NewVal("rows").t = "null" /\ NewVal("columns").t = "null"
    /\ OldVal("data").t = "null"
    /\ CTruthy(NewVal("data")) /\ ~NewVal("data").empty
    /\ inv.equality = "changed"
    /\ inv.events = <<>>

\* C12: on every run of the canvas change listener dispatchProps followed
\* by render runs if and only if updateChecker passes on the new values and
\* the canvas is mounted, whatever the equality check says; nothing else
\* is run.
C12_RunsIffValidAndMounted ==
    inv.fired =>
        /\ inv.events \in {<<>>, Downstream}
        /\ (inv.events = Downstream)
               <=> (updateChecker(PropNames, inv.params) /\ inv.mounted)

\* C13: with a watched property of no known category in the list,
\* equalityChecker reports a change for every pair of old and new values
\* (stated for runs in which that property itself did change and the check
\* returned).
C13_UnknownCategoryAlwaysChanged ==
    (inv.fired /\ Category("title") = "default"
        /\ OldVal("title") # NewVal("title") /\ inv.equality # "thrown")
    => inv.equality = "changed"

\* Equality of one property under the predicate of its category: arrays of
\* the same length with the same elements position by position, the same
\* reference for the object-valued properties.
CategoryEqual(option, oldVal, newVal) ==
    IF Category(option) = "Array"
    THEN oldVal.t = "array" /\ newVal.t = "array" /\ oldVal.elems = newVal.elems
    ELSE oldVal = newVal

SomeKnownDiffers ==
    \E i \in 1..Len(PropNames) :
        /\ Category(PropNames[i]) # "default"
        /\ ~CategoryEqual(PropNames[i], inv.params[i][1], inv.params[i][2])

\* C14: for the watched properties of the known categories equalityChecker
\* reports a change if and only if at least one of them differs under the
\* predicate of its category, wherever it stands in the list.
C14_ChangedIffSomeKnownDiffers ==
    inv.fired => ((inv.equality = "changed") <=> SomeKnownDiffers)

---------------------------------------------------------------------------
(* The last operation on the store, as the properties read it *)

\* The attached listeners that depend on the property of the last commit.
Dependents == {i \in ActiveSet : last.prop \in nodes[i].props}
ByMethod(method) == {i \in Ids : nodes[i].method = method}

C19_NoCallAfterUnsubscribeAll ==
    (last.op \in {"commit", "frame"}) =>
        \A i \in last.called : i > detachedUpTo \/ i \in last.stale

C19_Witness ==
    /\ last.op = "commit" /\ detachedUpTo = 2
    /\ nodes[1].method # nodes[2].method
    /\ last.prop \in nodes[1].props /\ last.prop \in nodes[2].props
    /\ last.called = {}

---------------------------------------------------------------------------
(* The call of a utility function, as the properties read it *)

IsCall(fn) == args.fn = fn /\ ret.done
NonEmpty(domains) == SelectSeq(domains, LAMBDA dom : Len(dom) # 0)
Least(S) == IF S = {} THEN Infinity ELSE CHOOSE x \in S : \A y \in S : x <= y
Greatest(S) == IF S = {} THEN MinusInfinity ELSE CHOOSE x \in S : \A y \in S : x >= y
Range(f) == {f[i] : i \in DOMAIN f}

\* The lists that hold the same domains as ds in another order.
Reorderings(ds) ==
    {[i \in 1..Len(ds) |-> ds[pi[i]]] :
        pi \in {f \in [1..Len(ds) -> 1..Len(ds)] : Range(f) = 1..Len(ds)}}

\* C21: for a continuous field unionDomain returns [the least lower bound,
\* the greatest upper bound] of the non-empty contributing domains, and the
\* same for every order of the domains.
C21_ContinuousUnionIsMinMax ==
    (IsCall("unionDomain") /\ args.fieldType = CONTINUOUS) =>
        /\ ~ret.threw
        /\ ret.value = <<Least({d[1] : d \in Range(NonEmpty(args.domains))}),
                         Greatest({d[2] : d \in Range(NonEmpty(args.domains))})>>
        /\ \A ds \in Reorderings(args.domains) :
               unionDomain(ds, CONTINUOUS) = ret.value

C21_Witness ==
    /\ IsCall("unionDomain") /\ args.fieldType = CONTINUOUS
    /\ args.domains = <<(<<2, 10>>), (<<-1, 5>>)>>
    /\ ret.value = <<-1, 10>>

\* The values of xs in the order of their first occurrence, each once.
RECURSIVE FirstSeen(_, _)
FirstSeen(xs, seen) ==
    IF xs = <<>> THEN <<>>
    ELSE IF Head(xs) \in seen THEN FirstSeen(Tail(xs), seen)
    ELSE <<Head(xs)>> \o FirstSeen(Tail(xs), seen \cup {Head(xs)})

\* C22: for a categorical field unionDomain returns the values of the
\* contributing domains in first-seen order, each exactly once.
C22_CategoricalUnionDeduplicated ==
    (IsCall("unionDomain") /\ args.fieldType = CATEGORICAL) =>
        (~ret.threw /\ ret.value = FirstSeen(Concat(args.domains, 1), {}))

\* obj is an object that has every key of keys.
HasAllKeys(keys, obj) ==
    obj.t \in {"object", "array"} /\ Range(keys) \subseteq obj.keys

\* C23: typeObj(keys, obj) never throws; it returns obj itself exactly when
\* obj is an object that has all the keys, and an Error value when obj is
\* not an object or lacks one of the keys.
C23_TypeObjNeverThrows ==
    IsCall("typeObj") =>
        /\ ~ret.threw
        /\ IF HasAllKeys(args.keys, args.obj)
           THEN ret.value = Same(args.obj)
           ELSE ret.value.error

\* How often transactor appended prop.
TimesAppended(prop) ==
    Cardinality({i \in 1..Len(ret.value.appends) : ret.value.appends[i] = prop})

\* C28: building the accessors on a store that already holds a property
\* leaves its value as it is and does not append it again, whatever the
\* value, falsy ones included; a property the store does not hold is
\* appended once with the default of its descriptor.
C28_ExistingPropertyKept ==
    IsCall("transactor") =>
        \A prop \in {Key, Sibling} :
            IF args.held[prop] # ABSENT
            THEN ret.value.store[prop] = args.held[prop] /\ TimesAppended(prop) = 0
            ELSE ret.value.store[prop] = args.value[prop] /\ TimesAppended(prop) = 1

\* C27: registerListeners makes exactly one registration per entry of the
\* listener map, in the order of the entries, each through the store method
\* the entry's type names and with the entry's props: none skipped, none
\* made twice, none made on the other channel.
C27_OneRegistrationPerEntry ==
    (last.op = "registerListeners") =>
        /\ Len(nodes) = Len(last.before.nodes) + Len(last.map)
        /\ SubSeq(nodes, 1, Len(last.before.nodes)) = last.before.nodes
        /\ \A i \in 1..Len(last.map) :
            LET node == nodes[Len(last.before.nodes) + i]
            IN /\ node.method = last.map[i].type
               /\ node.props = last.map[i].props
               /\ node.channel = (IF last.map[i].type = RegisterChange
                                  THEN "next" ELSE "on")
        /\ listeners = last.before.listeners \o
               [i \in 1..Len(last.map) |-> Len(last.before.nodes) + i]

C27_Witness ==
    /\ last.op = "registerListeners"
    /\ Len(last.map) = 2
    /\ last.map[1].type = RegisterImmediate /\ last.map[1].props = {"data"}
    /\ last.map[2].type = RegisterChange
    /\ nodes[1].channel = "on" /\ nodes[2].channel = "next"


Fired(handler) == fired.handler = handler

\* C25: when the data listener of a layer fires with data that is absent,
\* empty or no data model, or while the config holds no encoding, it
\* derives nothing and raises nothing, and every derived field of the layer
\* keeps the value it had.
C25_SkipsWithoutUsableData ==
    (/\ Fired("data")
     /\ \/ fired.data.t # "model"
        \/ fired.data.empty
        \/ ~fired.encoding)
    => (/\ ~fired.threw
        /\ fired.trace = <<>>
        /\ ctx = fired.before)

StepNames(trace) == [i \in 1..Len(trace) |-> trace[i].step]

\* C26: when the data listener of a layer fires with a data model and an
\* encoding, it sets encodingFieldsInf, transformType, the transformed data,
\* the normalized data and the domain in that order, the normalized data
\* computed from the transformed data of this run and the domain from that
\* normalized data, and the domain is committed exactly once.
C26_DerivationInOrder ==
    (Fired("data") /\ fired.data.t = "model" /\ fired.encoding)
    => (/\ ~fired.threw
        /\ StepNames(fired.trace) =
             <<"encodingFieldsInf", "transformType", "transformedData",
               "normalizedData", "domain">>
        /\ Origin(fired.trace[1].value) = fired.data.id
        /\ Origin(fired.trace[2].value) = fired.data.id
        /\ Origin(fired.trace[3].value) = fired.data.id
        /\ Origin(fired.trace[4].value) = Origin(fired.trace[3].value)
        /\ Origin(fired.trace[5].value) = Origin(fired.trace[4].value)
        /\ ctx.transformedData = fired.trace[3].value
        /\ ctx.normalizedData = fired.trace[4].value
        /\ ctx.domain = fired.trace[5].value
        /\ Cardinality({i \in 1..Len(fired.trace) : fired.trace[i].step = "domain"}) = 1)

\* A second data model arrived after a first one was derived from.
C26_Witness ==
    /\ Fired("data")
    /\ fired.data.t = "model"
    /\ fired.encoding
    /\ Origin(fired.before.domain) \notin {0, fired.data.id}
    /\ Origin(ctx.domain) = fired.data.id

\* C29: the domain listener of a layer does nothing while the layer has no
\* mount; with a mount it renders into the mount first and commits
\* ON_LAYER_DRAW once, only after render has returned.
C29_RenderThenCommitOnce ==
    Fired("domain")
    => IF fired.mount = "null"
       THEN fired.trace = <<>> /\ ~fired.threw
       ELSE /\ fired.trace[1] = Step("render", fired.mount)
            /\ Cardinality({i \in 1..Len(fired.trace) : fired.trace[i].step = "render"}) = 1
            /\ Cardinality({i \in 1..Len(fired.trace) : fired.trace[i].step = "commit"})
                 = (IF fired.renderReturns THEN 1 ELSE 0)
            /\ fired.renderReturns
                 => fired.trace = <<Step("render", fired.mount), Step("commit", ON_LAYER_DRAW)>>

\* The layer is mounted and its render has returned.
C29_Witness ==
    /\ Fired("domain")
    /\ fired.mount = "element"
    /\ fired.renderReturns
    /\ Len(fired.trace) = 2

\* The keys of allOptions, in order, that satisfy a condition.
OptionsWhere(Test(_)) == SelectSeq(AllOptions, Test)

ForwardKeys(trace) ==
    [i \in 1..Len(SelectSeq(trace, LAMBDA st : st.step = "forward")) |->
        SelectSeq(trace, LAMBDA st : st.step = "forward")[i].value]

\* What dispatchProps does around the forwarding.
Around(trace, n) ==
    /\ Len(trace) = n + 5
    /\ trace[1] = Step("notify", "beforeupdate")
    /\ \A i \in 2..(n + 1) : trace[i].step = "forward"
    /\ trace[n + 2].step = "createMatrices"
    /\ trace[n + 3] = Step("_cachedProps", "{}")
    /\ trace[n + 4] = Step("notify", "initialized")
    /\ trace[n + 5] = Step("notify", "updated")

\* C30 as stated: dispatchProps emits beforeupdate, initialized and updated
\* once each in that order, and in between forwards to the visual group
\* every option whose value is not null, never a null one, then calls
\* createMatrices once and empties _cachedProps.
C30_ForwardsEveryNonNullOption ==
    Fired("dispatchProps")
    => /\ ForwardKeys(fired.trace)
            = OptionsWhere(LAMBDA key : fired.values[key] # "null")
       /\ Around(fired.trace, Len(ForwardKeys(fired.trace)))

\* C30, amended: the options forwarded are those whose value is not null
\* and for which the visual group has a method of that name; the rest is as
\* stated.
C30_ForwardsNonNullOptionsWithMethod ==
    Fired("dispatchProps")
    => /\ ForwardKeys(fired.trace)
            = OptionsWhere(LAMBDA key : /\ fired.values[key] # "null"
                                        /\ key \in fired.methods)
       /\ Around(fired.trace, Len(ForwardKeys(fired.trace)))

\* One option is null, one is forwarded, one has no method to take it.
C30_Witness ==
    /\ Fired("dispatchProps")
    /\ fired.values["rows"] = "null"
    /\ fired.values["columns"] = "value"
    /\ fired.values["color"] = "value"
    /\ fired.methods = {"rows", "columns"}
    /\ ForwardKeys(fired.trace) = <<"columns">>


---------------------------------------------------------------------------
(* The canvas change listener on values that are no arrays *)

\* C31: the canvas change listener returns without an exception for every
\* old and new value of rows, columns and detail among undefined, null and
\* an array, also when a property that held an array is committed to null.
C31_ListenerNeverThrows ==
    inv.fired => inv.equality # "thrown"


---------------------------------------------------------------------------
(* The algorithms *)

\* The names reached from name along one or more edges.
RECURSIVE ReachedFrom(_, _, _)
ReachedFrom(graph, S, k) ==
    IF k = 0 THEN S
    ELSE ReachedFrom(graph, S \cup UNION {Range(graph[x]) : x \in S}, k - 1)
DependsOn(graph, name) ==
    ReachedFrom(graph, Range(graph[name]), Cardinality(DOMAIN graph))
Acyclic(graph) == \A name \in DOMAIN graph : name \notin DependsOn(graph, name)

Positions(order, name) == {i \in 1..Len(order) : order[i] = name}

\* C32: for an acyclic graph whose edges all lead to keys of the graph,
\* getDependencyOrder returns every key exactly once, each after all the
\* keys it depends on.
C32_EveryKeyOnceAfterItsDependencies ==
    (IsCall("getDependencyOrder") /\ Acyclic(args.graph))
    => /\ \A name \in DOMAIN args.graph :
            Cardinality(Positions(ret.value, name)) = 1
       /\ Len(ret.value) = Len(args.keys)
       /\ \A name \in DOMAIN args.graph : \A dep \in Range(args.graph[name]) :
            \A i \in Positions(ret.value, name) :
                \E j \in Positions(ret.value, dep) : j < i


---------------------------------------------------------------------------
(* The objects that keep state *)

\* C33: every complete application of a curried function returns fn of
\* exactly the arguments supplied in that application, and a call that does
\* not complete one returns the curried function.
C33_CurriedFunctionReusable ==
    op.fn = "interFn"
    => IF op.complete THEN op.result = FnValue(op.supplied)
       ELSE op.result = InterFn


\* C34: a call of a generated accessor with an argument whose sanitized
\* value fails the typeChecker leaves the backing field as it was and
\* returns the stored value; one that passes stores the sanitized value and
\* returns the context; a call without arguments returns the stored value
\* and changes nothing.
C34_AccessorContract ==
    (op.fn = "accessor" /\ ~op.threw)
    => IF Len(op.params) = 0
       THEN subject.field = op.before /\ op.result = FnValue(op.before)
       ELSE LET value == IF subject.sanitization = "none" THEN op.params[1]
                         ELSE intSanitizer(op.params[1])
                passes == \/ subject.typeChecker = "none"
                          \/ TypeCheckFn(subject.typeChecker, value) = JSTRUE
            IN IF passes
               THEN subject.field = value /\ op.result = TheContext
               ELSE subject.field = op.before /\ op.result = FnValue(op.before)

\* A value was stored in its sanitized form, and then a value that the
\* typeChecker refuses was passed.
C34_Witness ==
    /\ op.fn = "accessor"
    /\ subject.typeChecker = "isNumber"
    /\ subject.sanitization = "intSanitizer"
    /\ op.params = <<"s:">>
    /\ op.before = "n:5"
    /\ subject.field = "n:5"
    /\ op.result = FnValue("n:5")


\* C35: once a model is chained to an endpoint, every change of an item
\* calls the endpoint method of that item exactly once with the new value,
\* the calls of one item come in the order of its changes, and a change of
\* a property that is no item calls nothing.
C35_OneCallPerChangeOfAnItem ==
    subject.kind = "chained"
    => \A q \in StoreProps :
          subject.calls[q] = IF q \in subject.items THEN subject.changes[q] ELSE <<>>

\* An item and a property that is no item have both changed, the item twice.
C35_Witness ==
    /\ subject.kind = "chained"
    /\ subject.items = {"data"}
    /\ subject.changes["data"] = <<1, 0>>
    /\ subject.changes["domain"] = <<1>>
    /\ subject.calls["data"] = <<1, 0>>
    /\ subject.calls["domain"] = <<>>


\* Every row of the data, series after series.
AllRows == Concat(SeriesOf(args.data), 1)

\* The numbers found in the given fields of the data.
NumbersIn ==
    {v.n : v \in {w \in {FieldOf(AllRows[i], args.fields[f]) :
                            i \in 1..Len(AllRows), f \in 1..Len(args.fields)} :
                     w.t = "number"}}

\* C36: for a field type other than categorical getDomainFromData returns
\* [lo, hi], the least and the greatest of the numbers in fields[0] and
\* fields[1] of all the series; for the categorical type it returns the
\* values of fields[0] in the order met, the undefined ones left out.
C36_DomainIsExtentOfTheNumbers ==
    IsCall("getDomainFromData")
    => IF args.fieldType = CATEGORICAL
       THEN ret.value = SelectSeq(MapField(AllRows, args.fields[1]),
                                  LAMBDA d : d # Undefined)
       ELSE ret.value = <<Least(NumbersIn), Greatest(NumbersIn)>>


Distance(i) == Abs(At(args.arr, i) - args.value)

\* C37: on a non-empty ascending array the loop of getClosestIndexOf ends
\* and the index returned lies within the array, for every value and side;
\* without a side the element at that index is as close to the value as
\* any element of the array.
C37_ClosestIndexWithinTheArray ==
    IsCall("getClosestIndexOf")
    => /\ ret.value.ended
       /\ ret.value.index \in 0..(Len(args.arr) - 1)
       /\ args.side = NoSide
            => \A j \in 0..(Len(args.arr) - 1) :
                   Distance(ret.value.index) <= Distance(j)

====
